---- MODULE Spec2Model ----
(***************************************************************************)
(* Regions of a finite element domain (sfepy/fem/domain.py).               *)
(*                                                                         *)
(* The model holds the region collection of one Domain (self.regions, a    *)
(* list of Region objects, here a sequence of object ids into a heap), the *)
(* parser stack self._region_stack, and the outcome of the last call.      *)
(* A selection text is a sequence of words; the parser turns it into a     *)
(* postfix stack of tokens, visit_stack replays the stack through          *)
(* region_leaf and region_op.                                              *)
(*                                                                         *)
(* Not modelled: the derivation of one entity kind from another through    *)
(* the mesh connectivity (cells of a vertex set, ...), the coordinate      *)
(* predicates and the user functions: those are services of the mesh.      *)
(* An entity set of a region is the set that was stored in it.             *)
(***************************************************************************)
EXTENDS Integers, Sequences, FiniteSets, TLC

\* ------------------------------------------------------------------ bounds

\* domain.shape.n_nod: the number of mesh vertices, 0 .. n_nod - 1.
n_nod == 2

\* The longest region collection a direct create_region call extends.
MaxRegions == 2

\* The longest region_names list handed to save_regions_as_groups.
MaxNames == 3

\* The longest region collection save_regions_as_groups is called on.
MaxSaved == 3

\* The entities 0 .. MaxEnt of the regions region_op is applied to.
MaxEnt == 1

\* The deepest leftover the parser stack may hold when a call starts.
MaxStack == 0

\* The groups of the mesh, self.groups: 0 .. n_groups - 1.
n_groups == 2

\* The FESurface objects constructed in one behaviour.
MaxSurfaces == 4

\* ------------------------------------------------------------------- words

Names == {"A", "B", "C"}

NoParent == "None"

\* A word of a selection text: a keyword, a region reference r.<name>, an
\* integer, or a set operator <comb><kind> such as -v.
Kw(s) == [t |-> "kw", s |-> s, k |-> "", n |-> 0]
Ref(name) == [t |-> "ref", s |-> name, k |-> "", n |-> 0]
Num(i) == [t |-> "int", s |-> "", k |-> "", n |-> i]
OpW(comb, kind) == [t |-> "op", s |-> comb, k |-> kind, n |-> 0]

IsKw(ws, i, s) == i <= Len(ws) /\ ws[i] = Kw(s)
IsT(ws, i, t) == i <= Len(ws) /\ ws[i].t = t

\* ------------------------------------------------------------------ tokens

\* One entry of the parser stack: op['token'], op['orig'].  For an operator
\* token OA_<Sub|Add|Intersect><V|E|F|S|C>, c3 is token[3] and last is
\* token[-1]; for a leaf token both are empty.
Tok(token, orig) == [token |-> token, c3 |-> "", last |-> "", orig |-> orig]
OpTok(c3, last) == [token |-> "OA", c3 |-> c3, last |-> last, orig |-> << >>]

\* The parse action of an operator word: - is Sub, + is Add, * is Intersect.
OpTokOf(w) ==
    OpTok(CASE w.s = "-" -> "S" [] w.s = "+" -> "A" [] OTHER -> "I",
          CASE w.k = "v" -> "V" [] w.k = "e" -> "E" [] w.k = "f" -> "F"
            [] w.k = "s" -> "S" [] OTHER -> "C")

\* The number of integer words of ws from position i on.
RECURSIVE IntRun(_, _)
IntRun(ws, i) == IF IsT(ws, i, "int") /\ ws[i].n >= 0 THEN 1 + IntRun(ws, i + 1) ELSE 0

Fail(i, out) == [ok |-> FALSE, i |-> i, out |-> out]
Done(i, out) == [ok |-> TRUE, i |-> i, out |-> out]

\* atom1: one leaf, pushed on the stack as soon as it is matched.
Atom1(ws, i) ==
    IF IsKw(ws, i, "all") THEN Done(i + 1, <<Tok("KW_All", <<ws[i]>>)>>)
    ELSE IF IsT(ws, i, "ref")
        THEN Done(i + 1, <<Tok("KW_Region", <<Kw("nocopy"), ws[i]>>)>>)
    ELSE IF IsKw(ws, i, "copy") /\ IsT(ws, i + 1, "ref")
        THEN Done(i + 2, <<Tok("KW_Region", <<ws[i], ws[i + 1]>>)>>)
    ELSE IF IsKw(ws, i, "vertex") /\ IntRun(ws, i + 1) > 0
        THEN LET k == IntRun(ws, i + 1)
             IN  Done(i + 1 + k, <<Tok("E_VI", SubSeq(ws, i, i + k))>>)
    ELSE IF IsKw(ws, i, "cell") /\ IntRun(ws, i + 1) > 0
        THEN LET k == IntRun(ws, i + 1)
             IN  Done(i + 1 + k, <<Tok("E_CI1", SubSeq(ws, i, i + k))>>)
    ELSE IF IsKw(ws, i, "vertices") /\ IsKw(ws, i + 1, "in") /\ IsKw(ws, i + 2, "[")
            /\ IsKw(ws, i + 3 + IntRun(ws, i + 3), "]")
        THEN LET k == IntRun(ws, i + 3)
             IN  Done(i + 4 + k, <<Tok("E_VIR", SubSeq(ws, i, i + 3 + k))>>)
    ELSE IF IsKw(ws, i, "cells") /\ IsKw(ws, i + 1, "of") /\ IsKw(ws, i + 2, "set")
            /\ IsT(ws, i + 3, "int")
        THEN Done(i + 4, <<Tok("E_COSET", SubSeq(ws, i, i + 3))>>)
    ELSE Fail(i, << >>)

\* region_expression << atom + ZeroOrMore(regop + region_expression), with
\* atom = atom1 | lpar + region_expression + rpar.  The operator is pushed
\* after its right operand; what a failed alternative pushed stays pushed.
RECURSIVE ParseExpr(_, _)
ParseExpr(ws, i) ==
    LET a1 == Atom1(ws, i)
        a == IF a1.ok THEN a1
             ELSE IF IsKw(ws, i, "(")
                 THEN LET e == ParseExpr(ws, i + 1)
                      IN  IF e.ok /\ IsKw(ws, e.i, ")")
                          THEN Done(e.i + 1, e.out) ELSE Fail(i, e.out)
             ELSE Fail(i, << >>)
    IN  IF ~a.ok THEN a
        ELSE IF IsT(ws, a.i, "op")
            THEN LET e == ParseExpr(ws, a.i + 1)
                 IN  IF e.ok THEN Done(e.i, a.out \o e.out \o <<OpTokOf(ws[a.i])>>)
                     ELSE Done(a.i, a.out \o e.out)
        ELSE a

\* self._bnf.parseString(select): StringStart + region_expression + StringEnd.
parseString(select) ==
    LET e == ParseExpr(select, 1)
    IN  [ok |-> e.ok /\ e.i = Len(select) + 1, out |-> e.out]

\* ----------------------------------------------------------------- regions

\* A Region object: its attributes and its entity sets.
Region(name, definition) ==
    [name |-> name, definition |-> definition, kind |-> "cell", parent |-> NoParent,
     vertices |-> {}, edges |-> {}, faces |-> {}, facets |-> {}, cells |-> {}]

\* nm.array([...], dtype=nm.uint32): the integers of the words
\* ws[from .. to], as a set of indices.  The integer words are naturals
\* below 2^32, which the conversion leaves as they are.
IntsOf(ws, from, to) == {ws[j].n : j \in from .. to}

\* OneTypeList.find(name): the first object of the list with that name, 0
\* for None.
find(regions, heap, name) ==
    IF \E j \in 1 .. Len(regions) : heap[regions[j]].name = name
    THEN regions[CHOOSE j \in 1 .. Len(regions) :
                    /\ heap[regions[j]].name = name
                    /\ \A l \in 1 .. j - 1 : heap[regions[l]].name # name]
    ELSE 0

get_names(regions, heap) == [j \in 1 .. Len(regions) |-> heap[regions[j]].name]

\* What a leaf or an operator returns: a region object.  id is the id of a
\* registered object (the object itself was returned), 0 for a new object.
Val(id, rec) == [id |-> id, rec |-> rec]

\* One leaf evaluation, as logged: the token, the name it looked up, its
\* copy flag, the registered object found, and whether that same object
\* (same), a duplicate (dup) or a new region (new) was returned, or the
\* leaf raised (raise).
LeafEv(op, name, id, res) ==
    [token |-> op.token, name |-> name,
     flag |-> IF op.token = "KW_Region" THEN op.orig[1].s ELSE "",
     id |-> id, res |-> res]

Raise(err, ev) == [err |-> err, val |-> Val(0, Region("leaf", << >>)), ev |-> ev]
Return(val, ev) == [err |-> "none", val |-> val, ev |-> ev]

\* rdef[:4] == 'copy'
StartsWithCopy(rdef) == Len(rdef) > 0 /\ rdef[1] = Kw("copy")

\* region_leaf(domain, regions, rdef, functions)(level, op)
region_leaf(regions, heap, rdef, op) ==
    LET token == op.token
        details == op.orig
        region == Region("leaf", rdef)
    IN  IF token = "KW_Region"
        THEN LET name == details[2].s
                 aux == find(regions, heap, name)
             IN  IF aux = 0
                 THEN Raise("ValueError: region does not exist",
                            LeafEv(op, name, 0, "raise"))
                 ELSE IF StartsWithCopy(rdef)
                     THEN Return(Val(0, heap[aux]), LeafEv(op, name, aux, "dup"))
                     ELSE Return(Val(aux, heap[aux]), LeafEv(op, name, aux, "same"))
        ELSE IF token = "KW_All"
        THEN Return(Val(0, [region EXCEPT !.vertices = 0 .. n_nod - 1]),
                    LeafEv(op, "", 0, "new"))
        ELSE IF token = "E_VIR"
        THEN LET vertices == IntsOf(details, 4, Len(details))
             IN  IF vertices = {}
                 THEN Raise("ValueError: zero-size array", LeafEv(op, "", 0, "raise"))
                 ELSE IF ~(\A v \in vertices : v >= 0)
                          \/ ~(\A v \in vertices : v < n_nod)
                     THEN Raise("ValueError: assertion failed", LeafEv(op, "", 0, "raise"))
                     ELSE Return(Val(0, [region EXCEPT !.vertices = vertices]),
                                 LeafEv(op, "", 0, "new"))
        ELSE IF token = "E_COSET"
        THEN Raise("NotImplementedError", LeafEv(op, "", 0, "raise"))
        ELSE IF token = "E_VI"
        THEN Return(Val(0, [region EXCEPT !.vertices = IntsOf(details, 2, Len(details))]),
                    LeafEv(op, "", 0, "new"))
        ELSE IF token = "E_CI1"
        THEN Return(Val(0, [region EXCEPT !.cells = IntsOf(details, 2, Len(details))]),
                    LeafEv(op, "", 0, "new"))
        ELSE Raise("NotImplementedError", LeafEv(op, "", 0, "raise"))

\* Region.__op_to_fun: nm.union1d, nm.setdiff1d, nm.intersect1d.
op_to_fun(op, a, b) ==
    CASE op = "-" -> a \ b
      [] op = "+" -> a \cup b
      [] op = "*" -> a \cap b

\* Region.eval_op_<kind>(other, op): a new region (light_copy) holding the
\* combination of the two operands' entities of that kind.
light_copy(self) == [Region("op", self.definition) EXCEPT !.kind = self.kind]
eval_op_vertices(self, other, op) ==
    [light_copy(self) EXCEPT !.vertices = op_to_fun(op, self.vertices, other.vertices)]
eval_op_edges(self, other, op) ==
    [light_copy(self) EXCEPT !.edges = op_to_fun(op, self.edges, other.edges)]
eval_op_faces(self, other, op) ==
    [light_copy(self) EXCEPT !.faces = op_to_fun(op, self.faces, other.faces)]
eval_op_facets(self, other, op) ==
    [light_copy(self) EXCEPT !.facets = op_to_fun(op, self.facets, other.facets)]
eval_op_cells(self, other, op) ==
    [light_copy(self) EXCEPT !.cells = op_to_fun(op, self.cells, other.cells)]

OpRaise(err) == [err |-> err, rec |-> Region("op", << >>)]
OpReturn(rec) == [err |-> "none", rec |-> rec]

\* region_op with the operands passed in the order they are popped, the
\* right operand as self.
region_op_swapped(op_code, item1, item2) ==
    IF op_code.c3 \notin {"S", "A", "I"} THEN OpRaise("KeyError")
    ELSE LET op == CASE op_code.c3 = "S" -> "-"
                     [] op_code.c3 = "A" -> "+"
                     [] op_code.c3 = "I" -> "*"
         IN  IF op_code.last = "V" THEN OpReturn(eval_op_vertices(item2, item1, op))
             ELSE IF op_code.last = "E" THEN OpReturn(eval_op_edges(item2, item1, op))
             ELSE IF op_code.last = "F" THEN OpReturn(eval_op_faces(item2, item1, op))
             ELSE IF op_code.last = "S" THEN OpReturn(eval_op_facets(item2, item1, op))
             ELSE IF op_code.last = "C" THEN OpReturn(eval_op_cells(item2, item1, op))
             ELSE OpRaise("ValueError: unknown region operator token")

\* region_op(level, op_code, item1, item2)
region_op(op_code, item1, item2) ==
    IF op_code.c3 \notin {"S", "A", "I"} THEN OpRaise("KeyError")
    ELSE LET op == CASE op_code.c3 = "S" -> "-"
                     [] op_code.c3 = "A" -> "+"
                     [] op_code.c3 = "I" -> "*"
         IN  IF op_code.last = "V" THEN OpReturn(eval_op_vertices(item1, item2, op))
             ELSE IF op_code.last = "E" THEN OpReturn(eval_op_edges(item1, item2, op))
             ELSE IF op_code.last = "F" THEN OpReturn(eval_op_faces(item1, item2, op))
             ELSE IF op_code.last = "S" THEN OpReturn(eval_op_facets(item1, item2, op))
             ELSE IF op_code.last = "C" THEN OpReturn(eval_op_cells(item1, item2, op))
             ELSE OpRaise("ValueError: unknown region operator token")

\* What visit gives: the error raised, the value, the stack left and the
\* leaves evaluated.
Visited(err, val, stack, log) == [err |-> err, val |-> val, stack |-> stack, log |-> log]

\* visit, at a leaf token: return leaf_visitor(level, op).
visit_leaf(l, rest) == Visited(l.err, l.val, rest, <<l.ev>>)

\* visit, at an operator token with both operands visited:
\* return op_visitor(level, op, res1, res2).
visit_op(o, r1, r2) == Visited(o.err, Val(0, o.rec), r1.stack, r2.log \o r1.log)

visit_res1(op, r1, r2) ==
    IF r1.err # "none" THEN [r1 EXCEPT !.log = r2.log \o r1.log]
    ELSE visit_op(region_op(op, r1.val.rec, r2.val.rec), r1, r2)

\* visit_stack(stack, region_op, region_leaf): pops one expression off the
\* top of the stack; an operator visits its right operand (res2) first,
\* then its left operand (res1).
RECURSIVE visit(_, _, _, _)
visit_res2(op, r2, regions, heap, rdef) ==
    IF r2.err # "none" THEN r2
    ELSE visit_res1(op, visit(r2.stack, regions, heap, rdef), r2)

visit(stack, regions, heap, rdef) ==
    IF stack[Len(stack)].token = "OA"
    THEN visit_res2(stack[Len(stack)],
                    visit(SubSeq(stack, 1, Len(stack) - 1), regions, heap, rdef),
                    regions, heap, rdef)
    ELSE visit_leaf(region_leaf(regions, heap, rdef, stack[Len(stack)]),
                    SubSeq(stack, 1, Len(stack) - 1))

\* ------------------------------------------------------------------ Domain

\* The state of a Domain that region creation reads and writes:
\* self.regions (object ids, the objects in heap) and self._region_stack.
Dom(regions, heap, stack) == [regions |-> regions, heap |-> heap, stack |-> stack]

\* reset_regions that leaves the regions where they are.
reset_regions_kept(d) == d

\* Domain.reset_regions
reset_regions(d) == Dom(<< >>, << >>, << >>)

\* region.get_parents(select): the names the text refers to as r.<name>,
\* in the order of the text.
RECURSIVE get_parents(_)
get_parents(select) ==
    IF select = << >> THEN << >>
    ELSE (IF Head(select).t = "ref" THEN <<Head(select).s>> ELSE << >>)
         \o get_parents(Tail(select))

Range(f) == {f[j] : j \in DOMAIN f}

\* One create_region call, as logged: the name, the selection text, the
\* names registered when it started, the error it raised, whether
\* parseString and visit_stack were invoked, the leaves evaluated and the
\* object returned (0 when it raised).
Call(name, select, present, err, parsed, visited, leaves, ret) ==
    [name |-> name, select |-> select, present |-> present, err |-> err,
     parsed |-> parsed, visited |-> visited, leaves |-> leaves, ret |-> ret]

\* What create_region gives: the domain after the call and the call's log.
Created(d, call) == [d |-> d, call |-> call]

\* create_region, from visit_stack's return on: the attributes are set on
\* the object returned (region.name = name, ...) and it is appended.
create_region_set(d, name, select, kind, parent, add_to_regions, v, id) ==
    Created(Dom(IF add_to_regions THEN Append(d.regions, id) ELSE d.regions,
                IF v.val.id # 0
                THEN [d.heap EXCEPT ![id] =
                        [v.val.rec EXCEPT !.name = name, !.definition = select,
                                          !.kind = kind, !.parent = parent]]
                ELSE IF add_to_regions
                THEN Append(d.heap,
                        [v.val.rec EXCEPT !.name = name, !.definition = select,
                                          !.kind = kind, !.parent = parent])
                ELSE d.heap,
                v.stack),
            Call(name, select, Range(get_names(d.regions, d.heap)), "none",
                 TRUE, TRUE, v.log, id))

\* create_region, from the call of visit_stack on.
create_region_visit(d, name, select, kind, parent, add_to_regions, v) ==
    IF v.err # "none"
    THEN Created([d EXCEPT !.stack = v.stack],
                 Call(name, select, Range(get_names(d.regions, d.heap)), v.err,
                      TRUE, TRUE, v.log, 0))
    ELSE create_region_set(d, name, select, kind, parent, add_to_regions, v,
                           IF v.val.id # 0 THEN v.val.id ELSE Len(d.heap) + 1)

\* create_region with the ParseException printed and not raised again: what
\* the parser pushed before it failed is visited.
create_region_parse_on(d, name, select, kind, parent, add_to_regions, p) ==
    IF ~p.ok /\ d.stack \o p.out = << >>
    THEN Created(d, Call(name, select, Range(get_names(d.regions, d.heap)),
                         "ParseException", TRUE, FALSE, << >>, 0))
    ELSE create_region_visit(d, name, select, kind, parent, add_to_regions,
                             visit(d.stack \o p.out, d.regions, d.heap, select))

\* create_region, from the return of self._bnf.parseString(select) on.
create_region_parse(d, name, select, kind, parent, add_to_regions, p) ==
    IF ~p.ok
    THEN Created([d EXCEPT !.stack = d.stack \o p.out],
                 Call(name, select, Range(get_names(d.regions, d.heap)),
                      "ParseException", TRUE, FALSE, << >>, 0))
    ELSE create_region_visit(d, name, select, kind, parent, add_to_regions,
                             visit(d.stack \o p.out, d.regions, d.heap, select))

\* create_region that does not look at the parents first.
create_region_unchecked(d, name, select, kind, parent, check_parents, add_to_regions) ==
    create_region_parse(d, name, select, kind, parent, add_to_regions,
                        parseString(select))

\* if check_parents: ... raise ValueError(msg)
parent_missing(d, select) ==
    \E j \in DOMAIN get_parents(select) :
        get_parents(select)[j] \notin Range(get_names(d.regions, d.heap))

\* Domain.create_region(name, select, kind, parent, check_parents,
\* functions, add_to_regions)
create_region(d, name, select, kind, parent, check_parents, add_to_regions) ==
    IF check_parents /\ parent_missing(d, select)
    THEN Created(d, Call(name, select, Range(get_names(d.regions, d.heap)),
                         "ValueError: parent region not found", FALSE, FALSE, << >>, 0))
    ELSE create_region_parse(d, name, select, kind, parent, add_to_regions,
                             parseString(select))

\* A region definition of region_defs: rdef.name, rdef.select, rdef.kind,
\* rdef.parent.  region_defs is a set of them with distinct names.
RDef(name, select, kind, parent) ==
    [name |-> name, select |-> select, kind |-> kind, parent |-> parent]

DefNames(defs) == {r.name : r \in defs}
DefOf(defs, name) == CHOOSE r \in defs : r.name = name

\* region.get_dependency_graph(region_defs): the names each name refers to.
get_dependency_graph(defs) ==
    [name \in DefNames(defs) |-> Range(get_parents(DefOf(defs, name).select))]

Perms(S) ==
    {f \in [1 .. Cardinality(S) -> S] : \A i, j \in DOMAIN f : f[i] = f[j] => i = j}

\* region.sort_by_dependency(graph): the orders it may return (it walks a
\* dictionary), every name after the names it refers to.
sort_by_dependency(graph) ==
    {f \in Perms(DOMAIN graph) :
        \A i \in DOMAIN f : \A p \in graph[f[i]] : \E j \in 1 .. i - 1 : f[j] = p}

\* The error of the ordering: a reference to a name that is not defined, or
\* a cycle of references.
dependency_error(graph) ==
    IF \E n \in DOMAIN graph : ~(graph[n] \subseteq DOMAIN graph)
    THEN "ValueError: undefined parent"
    ELSE IF sort_by_dependency(graph) = {} THEN "ValueError: circular dependency"
    ELSE "none"

\* What create_regions gives: the domain after the call, the error raised
\* and the create_region calls made.
Pass(d, err, calls) == [d |-> d, err |-> err, calls |-> calls]

\* The loop of create_regions over sorted_regions, from position i on.
RECURSIVE define_regions(_, _, _, _, _)
define_next(c, defs, sorted_regions, i, calls) ==
    IF c.call.err # "none" THEN Pass(c.d, c.call.err, Append(calls, c.call))
    ELSE define_regions(c.d, defs, sorted_regions, i + 1, Append(calls, c.call))

define_regions(d, defs, sorted_regions, i, calls) ==
    IF i > Len(sorted_regions) THEN Pass(d, "none", calls)
    ELSE define_next(create_region(d, sorted_regions[i],
                                   DefOf(defs, sorted_regions[i]).select,
                                   DefOf(defs, sorted_regions[i]).kind,
                                   DefOf(defs, sorted_regions[i]).parent,
                                   FALSE, TRUE),
                     defs, sorted_regions, i, calls)

\* Domain.create_regions(region_defs, functions), with the order that
\* sort_by_dependency returned.
create_regions(d, defs, sorted_regions) ==
    IF dependency_error(get_dependency_graph(defs)) # "none"
    THEN Pass(reset_regions(d), dependency_error(get_dependency_graph(defs)), << >>)
    ELSE define_regions(reset_regions(d), defs, sorted_regions, 1, << >>)

\* ------------------------------------------------- save_regions_as_groups

\* self.regions[name]: OneTypeList.__getitem__ with a name.
HasRegion(d, name) == find(d.regions, d.heap, name) # 0
RegionOf(d, name) == d.heap[find(d.regions, d.heap, name)]

\* region.vertices.shape[0] == n_nod
IsWhole(region) == Cardinality(region.vertices) = n_nod

\* list.remove(x): the list without the first entry equal to x.
remove(seq, x) ==
    LET j == CHOOSE l \in DOMAIN seq : seq[l] = x /\ \A m \in 1 .. l - 1 : seq[m] # x
    IN  SubSeq(seq, 1, j - 1) \o SubSeq(seq, j + 1, Len(seq))

\* The first loop over names without the reordering.
whole_first_kept(d, names, j) == [err |-> "none", names |-> names]

\* "The whole domain region should go first": the first loop over names,
\* from position j on.
RECURSIVE whole_first(_, _, _)
whole_first(d, names, j) ==
    IF j > Len(names) THEN [err |-> "none", names |-> names]
    ELSE IF ~HasRegion(d, names[j]) THEN [err |-> "IndexError", names |-> names]
    ELSE IF IsWhole(RegionOf(d, names[j]))
        THEN [err |-> "none",
              names |-> <<RegionOf(d, names[j]).name>>
                        \o remove(names, RegionOf(d, names[j]).name)]
    ELSE whole_first(d, names, j + 1)

\* The second loop: aux.ngroups[region.vertices] = n_ig; n_ig += 1.  The
\* ids given so far are in groups, one [name, n_ig] per region processed.
RECURSIVE mark_groups(_, _, _, _, _)
mark_groups(d, names, j, ngroups, groups) ==
    IF j > Len(names) THEN [err |-> "none", ngroups |-> ngroups, groups |-> groups]
    ELSE IF ~HasRegion(d, names[j])
        THEN [err |-> "IndexError", ngroups |-> ngroups, groups |-> groups]
    ELSE LET region == RegionOf(d, names[j])
             n_ig == j - 1
         IN  IF \E v \in region.vertices : v >= n_nod
             THEN [err |-> "IndexError", ngroups |-> ngroups, groups |-> groups]
             ELSE mark_groups(d, names, j + 1,
                              [v \in DOMAIN ngroups |->
                                  IF v \in region.vertices THEN n_ig ELSE ngroups[v]],
                              Append(groups, [name |-> names[j], n_ig |-> n_ig]))

\* Domain.save_regions_as_groups(filename, region_names): the node groups
\* written (the mesh's own node groups are all 0).  The element groups
\* (mat_ids) need the cells of each region, which the mesh derives.
save_regions_as_groups(d, region_names, is_none) ==
    LET names == IF is_none THEN get_names(d.regions, d.heap) ELSE region_names
        w == whole_first(d, names, 1)
        m == mark_groups(d, w.names, 1, [v \in 0 .. n_nod - 1 |-> 0], << >>)
    IN  IF w.err # "none"
        THEN [err |-> w.err, ngroups |-> [v \in 0 .. n_nod - 1 |-> 0], groups |-> << >>]
        ELSE m

\* ---------------------------------------------------------- surface groups

\* A dict as a function: the empty dict, d.setdefault(key, default) and
\* d[key] = value.
EmptyDict == << >>
setdefault(dict, key, default) ==
    IF key \in DOMAIN dict THEN dict
    ELSE [k \in DOMAIN dict \cup {key} |-> IF k = key THEN default ELSE dict[k]]
setitem(dict, key, value) ==
    [k \in DOMAIN dict \cup {key} |-> IF k = key THEN value ELSE dict[k]]

\* What create_surface_group reads of its region: region.name, region.igs.
SurfRegion(name, igs) == [name |-> name, igs |-> igs]

\* FESurface(name, region, gel_faces, group.conn, ig), with
\* name = 'surface_group_%s_%d' % (region.name, ig); id tells the objects
\* constructed apart.
FESurface(region, ig, id) ==
    [name |-> <<"surface_group", region.name, ig>>, region |-> region.name,
     ig |-> ig, id |-> id]

\* self.surface_groups and the number of FESurface objects constructed.
Surf(surface_groups, built) == [surface_groups |-> surface_groups, built |-> built]

\* Domain.clear_surface_groups
clear_surface_groups(f) == Surf(EmptyDict, f.built)

\* The body of the loop with a surface group constructed for every ig,
\* whether one is there or not.
surface_group_rebuilt(f, region, ig) ==
    Surf(setitem(setdefault(f.surface_groups, ig, EmptyDict), ig,
                 setitem(setdefault(f.surface_groups, ig, EmptyDict)[ig], region.name,
                         FESurface(region, ig, f.built + 1))),
         f.built + 1)

\* create_surface_group, the body of the loop for one ig.
surface_group_for(f, region, ig) ==
    IF region.name \notin DOMAIN setdefault(f.surface_groups, ig, EmptyDict)[ig]
    THEN Surf(setitem(setdefault(f.surface_groups, ig, EmptyDict), ig,
                      setitem(setdefault(f.surface_groups, ig, EmptyDict)[ig], region.name,
                              FESurface(region, ig, f.built + 1))),
              f.built + 1)
    ELSE Surf(setdefault(f.surface_groups, ig, EmptyDict), f.built)

\* Domain.create_surface_group(region): for ig in region.igs, from
\* position j on.
RECURSIVE create_surface_group(_, _, _)
create_surface_group(f, region, j) ==
    IF j > Len(region.igs) THEN f
    ELSE create_surface_group(surface_group_for(f, region, region.igs[j]), region, j + 1)

\* ------------------------------------------------------------------ inputs

Kinds == {"cell", "vertex"}

\* The selection texts the calls are made with.
SelectTexts ==
    { <<Kw("all")>>,
      <<Ref("A")>>,
      <<Kw("copy"), Ref("A")>>,
      <<Ref("A"), OpW("+", "v"), Kw("copy"), Ref("A")>>,
      <<Kw("copy"), Ref("A"), OpW("-", "v"), Ref("A")>>,
      <<Kw("vertex"), Num(0)>>,
      <<Kw("vertex"), Num(n_nod)>>,
      <<Kw("vertices"), Kw("in"), Kw("["), Num(0), Kw("]")>>,
      <<Kw("vertices"), Kw("in"), Kw("["), Num(0), Num(n_nod), Kw("]")>>,
      <<Kw("cells"), Kw("of"), Kw("set"), Num(1)>>,
      <<Kw("all"), Kw("all")>>,
      <<Ref("A"), OpW("+", "v")>> }

\* The texts of the regions made before a create_regions call.
FirstTexts == { <<Kw("all")>>, <<Ref("A")>> }

\* The texts of the regions that save_regions_as_groups is called on.
SaveTexts == { <<Kw("all")>>, <<Kw("vertex"), Num(0)>>, <<Kw("vertex"), Num(n_nod)>> }

\* The selection texts of the definitions create_regions is called with.
PassTexts ==
    { <<Kw("all")>>,
      <<Ref("A")>>,
      <<Kw("copy"), Ref("A")>>,
      <<Ref("A"), OpW("-", "v"), Ref("B")>>,
      <<Kw("vertices"), Kw("in"), Kw("["), Num(0), Num(n_nod), Kw("]")>>,
      <<Kw("all"), Kw("all")>> }

\* The region_defs dictionaries: one definition per name, kind and parent
\* left to their defaults, rdef.get('kind', 'cell'), rdef.get('parent', None).
DefSets ==
    {{RDef(name, f[name], "cell", NoParent) : name \in {m \in Names : f[m] # << >>}} :
        f \in [Names -> PassTexts \cup {<< >>}]}

\* The lists of names of length at most n over the set S.
RECURSIVE SeqsUpTo(_, _)
SeqsUpTo(S, n) ==
    IF n = 0 THEN {<< >>}
    ELSE LET shorter == SeqsUpTo(S, n - 1)
         IN  shorter \cup {Append(q, x) : q \in {r \in shorter : Len(r) = n - 1}, x \in S}

\* region.igs: the groups a region has cells in, each once.
IgLists ==
    {igs \in SeqsUpTo(0 .. n_groups - 1, n_groups) :
        \A j, l \in DOMAIN igs : igs[j] = igs[l] => j = l}

\* ------------------------------------------------------------------- state

VARIABLES
    regions,        \* self.regions: the ids of the registered objects
    heap,           \* the Region objects, by id
    region_stack,   \* self._region_stack
    last,           \* the last call: its arguments, its error, what it did
    optest,         \* region_op applied to a token and two regions
    surface_groups, \* self.surface_groups
    fe_surfaces     \* the FESurface objects constructed so far

vars == <<regions, heap, region_stack, last, optest, surface_groups, fe_surfaces>>

D == Dom(regions, heap, region_stack)

\* The last call: the operation and the error it raised, and with them
\*   create_region:  calls, the one call, as logged by Call, and the
\*                   check_parents it was given;
\*   create_regions: defs, the region_defs, and calls, the create_region
\*                   calls it made, in order;
\*   save_regions_as_groups: names, the list of names it was given (the
\*                   names of the collection for None), groups, the
\*                   regions processed with their node group ids, in
\*                   order, and ngroups, the node groups written;
\*   create_surface_group: region, the name and igs of its region.

\* region_op not applied.
NoOpTest == [err |-> ""]

\* Domain.__init__ ends in reset_regions().
Init ==
    /\ regions = << >>
    /\ heap = << >>
    /\ region_stack = << >>
    /\ last = [op |-> "init", err |-> "none"]
    /\ optest = NoOpTest
    /\ surface_groups = clear_surface_groups(Surf(EmptyDict, 0)).surface_groups
    /\ fe_surfaces = 0

SetDom(d) ==
    /\ regions' = d.regions
    /\ heap' = d.heap
    /\ region_stack' = d.stack

ResetRegions ==
    /\ SetDom(reset_regions(D))
    /\ last' = [op |-> "reset_regions", err |-> "none"]
    /\ UNCHANGED <<optest, surface_groups, fe_surfaces>>

Called(c, check_parents) ==
    /\ SetDom(c.d)
    /\ last' = [op |-> "create_region", err |-> c.call.err, calls |-> <<c.call>>,
                check_parents |-> check_parents]

CreateRegion(texts, kinds, flags, max) ==
    \E name \in Names, select \in texts, kind \in kinds,
       check_parents \in flags, add_to_regions \in flags :
        /\ Len(regions) < max
        /\ Len(region_stack) <= MaxStack
        /\ Called(create_region(D, name, select, kind, NoParent,
                                check_parents, add_to_regions), check_parents)
        /\ UNCHANGED <<optest, surface_groups, fe_surfaces>>

Passed(defs, r) ==
    /\ SetDom(r.d)
    /\ last' = [op |-> "create_regions", err |-> r.err, defs |-> defs, calls |-> r.calls]

\* The orders sort_by_dependency may return; one call when it raises.
SortedRegions(defs) ==
    IF dependency_error(get_dependency_graph(defs)) = "none"
    THEN sort_by_dependency(get_dependency_graph(defs)) ELSE {<< >>}

CreateRegions ==
    \E defs \in DefSets :
        /\ Len(region_stack) <= MaxStack
        /\ \E sorted_regions \in SortedRegions(defs) :
              Passed(defs, create_regions(D, defs, sorted_regions))
        /\ UNCHANGED <<optest, surface_groups, fe_surfaces>>

Saved(names, r) ==
    last' = [op |-> "save_regions_as_groups", err |-> r.err, names |-> names,
             groups |-> r.groups, ngroups |-> r.ngroups]

SaveRegionsAsGroups ==
    \E region_names \in SeqsUpTo(Names, MaxNames), is_none \in BOOLEAN :
        /\ is_none => region_names = << >>
        /\ Saved(IF is_none THEN get_names(regions, heap) ELSE region_names,
                 save_regions_as_groups(D, region_names, is_none))
        /\ UNCHANGED <<regions, heap, region_stack, optest, surface_groups, fe_surfaces>>

\* region_op applied to every operator token and a pair of regions whose
\* entity sets are drawn from EntSets.
EntSets == {{e} : e \in 0 .. MaxEnt}

OpItems ==
    {[Region("item", << >>) EXCEPT !.vertices = f[1], !.edges = f[2], !.faces = f[3],
                                   !.facets = f[4], !.cells = f[5]] :
        f \in [1 .. 5 -> EntSets]}

Applied(token, item1, item2, o) ==
    optest' = [token |-> token, item1 |-> item1, item2 |-> item2,
               err |-> o.err, rec |-> o.rec]

ApplyRegionOp ==
    \E c3 \in {"S", "A", "I"}, lst \in {"V", "E", "F", "S", "C", "X"},
       item1 \in OpItems, item2 \in OpItems :
        /\ optest.err = ""
        /\ Applied(OpTok(c3, lst), item1, item2, region_op(OpTok(c3, lst), item1, item2))
        /\ UNCHANGED <<regions, heap, region_stack, last, surface_groups, fe_surfaces>>

SetSurf(f) ==
    /\ surface_groups' = f.surface_groups
    /\ fe_surfaces' = f.built

ClearSurfaceGroups ==
    /\ SetSurf(clear_surface_groups(Surf(surface_groups, fe_surfaces)))
    /\ last' = [op |-> "clear_surface_groups", err |-> "none"]
    /\ UNCHANGED <<regions, heap, region_stack, optest>>

CreateSurfaceGroup ==
    \E name \in Names, igs \in IgLists :
        /\ fe_surfaces + Len(igs) <= MaxSurfaces
        /\ SetSurf(create_surface_group(Surf(surface_groups, fe_surfaces),
                                        SurfRegion(name, igs), 1))
        /\ last' = [op |-> "create_surface_group", err |-> "none",
                    region |-> SurfRegion(name, igs)]
        /\ UNCHANGED <<regions, heap, region_stack, optest>>

\* Region creation through create_region.
Next ==
    \/ ResetRegions
    \/ CreateRegion(SelectTexts, Kinds, BOOLEAN, MaxRegions)

Spec == Init /\ [][Next]_vars

\* Region creation through create_regions, on a collection that may hold
\* regions already.
NextPass ==
    \/ ResetRegions
    \/ CreateRegion(FirstTexts, {"vertex"}, {TRUE}, MaxRegions)
    \/ CreateRegions

SpecPass == Init /\ [][NextPass]_vars

\* Regions saved as groups.
NextSave ==
    \/ CreateRegion(SaveTexts, {"cell"}, {TRUE}, MaxSaved)
    \/ SaveRegionsAsGroups

SpecSave == Init /\ [][NextSave]_vars

\* region_op on its own.
NextOp == ApplyRegionOp

SpecOp == Init /\ [][NextOp]_vars

\* Surface groups.
NextSurface ==
    \/ ClearSurfaceGroups
    \/ CreateSurfaceGroup

SpecSurface == Init /\ [][NextSurface]_vars

\* ------------------------------------------------------------------ claims

\* The regions of the collection, in order, as values.
RegionRecs(rs, h) == [j \in 1 .. Len(rs) |-> h[rs[j]]]

\* The create_region call that `last` logs.
TheCall == last.calls[1]

IsRegionLeaf(e) == e.token = "KW_Region"

\* C1: in a create_regions pass over an acyclic definition set whose
\* references are all defined, every region that a definition refers to is
\* registered under its name when create_region starts for that definition,
\* and no named-reference lookup fails during the pass.
C1_ReferencedRegionsRegisteredFirst ==
    (/\ last.op = "create_regions"
     /\ dependency_error(get_dependency_graph(last.defs)) = "none")
    => \A i \in DOMAIN last.calls :
          /\ Range(get_parents(last.calls[i].select)) \subseteq last.calls[i].present
          /\ \A j \in DOMAIN last.calls[i].leaves :
                IsRegionLeaf(last.calls[i].leaves[j])
                    => last.calls[i].leaves[j].res # "raise"

\* C2 as stated: a create_regions pass that raises leaves the collection
\* with the same regions as before the call.
C2_FailedPassRestoresCollection ==
    [][(last'.op = "create_regions" /\ last'.err # "none")
        => RegionRecs(regions', heap') = RegionRecs(regions, heap)]_vars

\* C2 as amended: a create_regions pass that raises leaves the collection
\* reset and then filled by the pass itself: it holds exactly the objects
\* returned by the create_region calls of the pass that completed, in the
\* order of the calls, and nothing when the ordering raised.
C2_FailedPassKeepsItsOwnRegions ==
    (last.op = "create_regions" /\ last.err # "none")
    => /\ \A i \in DOMAIN last.calls :
            (last.calls[i].err = "none") <=> (i < Len(last.calls))
       /\ regions = [i \in 1 .. Len(last.calls) - 1 |-> last.calls[i].ret]
       /\ (last.calls = << >> => regions = << >>)

C2_Witness ==
    /\ last.op = "create_regions"
    /\ last.err # "none"
    /\ Len(regions) >= 1
    /\ Len(last.calls) >= 2

\* C3: no two entries of the region collection have the same name.
C3_UniqueNames ==
    \A i, j \in 1 .. Len(regions) :
        heap[regions[i]].name = heap[regions[j]].name => i = j

\* C4: a create_region call whose text refers to a registered region R
\* without requesting copy leaves R as it was (name, definition, kind,
\* parent, entity sets) and returns an object other than R.
C4_ReferencedRegionNotMutated ==
    [][(last'.op = "create_region" /\ last'.err = "none")
        => \A j \in DOMAIN last'.calls[1].leaves :
              LET e == last'.calls[1].leaves[j]
              IN  (IsRegionLeaf(e) /\ e.flag = "nocopy")
                  => /\ heap'[e.id] = heap[e.id]
                     /\ last'.calls[1].ret # e.id]_vars

\* C5: every named-reference leaf raises when the name is not registered,
\* returns a duplicate (another object) when it is written copy r.<name>,
\* and returns the registered object itself otherwise.
C5_ReferenceLeafFollowsItsCopyFlag ==
    last.op = "create_region"
    => \A j \in DOMAIN TheCall.leaves :
          LET e == TheCall.leaves[j]
          IN  IsRegionLeaf(e)
              => /\ (e.id = 0) <=> (e.res = "raise")
                 /\ (e.id # 0 /\ e.flag = "copy") => e.res = "dup"
                 /\ (e.id # 0 /\ e.flag = "nocopy") => e.res = "same"

\* The text is an explicit vertex list, vertex <int> ... or
\* vertices in [<int> ...], with an index >= n_nod.
VertexListOutOfBounds(select) ==
    /\ Len(select) > 0
    /\ select[1] \in {Kw("vertex"), Kw("vertices")}
    /\ parseString(select).ok
    /\ \E j \in DOMAIN select : select[j].t = "int" /\ select[j].n >= n_nod

\* C6: create_region with an explicit vertex list holding an index >= n_nod
\* raises a bounds-validation error and appends no region.
C6_VertexListBoundsChecked ==
    [][(last'.op = "create_region" /\ VertexListOutOfBounds(last'.calls[1].select))
        => /\ last'.err = "ValueError: assertion failed"
           /\ regions' = regions]_vars

\* C7: when parsing the selection text fails in create_region, the parse
\* error reaches the caller, visit_stack is not invoked (no leaf is
\* evaluated) and the region collection is unchanged.
C7_ParseFailureRegistersNothing ==
    [][(/\ last'.op = "create_region"
        /\ last'.calls[1].parsed
        /\ ~parseString(last'.calls[1].select).ok)
        => /\ last'.err = "ParseException"
           /\ ~last'.calls[1].visited
           /\ last'.calls[1].leaves = << >>
           /\ last'.calls[1].ret = 0
           /\ regions' = regions
           /\ heap' = heap]_vars

C7_Witness ==
    /\ last.op = "create_region"
    /\ last.err = "ParseException"
    /\ TheCall.select = <<Kw("all"), Kw("all")>>
    /\ region_stack # << >>
    /\ Len(regions) >= 1

\* The definitions refer to a name that none of them defines.
UndefinedParent(defs) ==
    \E r \in defs : ~(Range(get_parents(r.select)) \subseteq DefNames(defs))

\* C8: a reference to a name that is neither defined nor registered is an
\* undefined-parent error raised before any evaluation: create_regions
\* raises it with no create_region call made and nothing registered, and
\* create_region with check_parents raises it before parsing, with no leaf
\* evaluated and the collection unchanged.
C8_UndefinedParentBeforeEvaluation ==
    [][/\ (last'.op = "create_regions" /\ UndefinedParent(last'.defs))
            => /\ last'.err = "ValueError: undefined parent"
               /\ last'.calls = << >>
               /\ regions' = << >>
       /\ (/\ last'.op = "create_region"
           /\ last'.check_parents
           /\ ~(Range(get_parents(last'.calls[1].select)) \subseteq last'.calls[1].present))
            => /\ last'.err = "ValueError: parent region not found"
               /\ ~last'.calls[1].parsed
               /\ ~last'.calls[1].visited
               /\ last'.calls[1].leaves = << >>
               /\ regions' = regions
               /\ heap' = heap
               /\ region_stack' = region_stack]_vars

C8_Witness ==
    /\ last.op = "create_region"
    /\ last.check_parents
    /\ last.err = "ValueError: parent region not found"
    /\ TheCall.present = {"B"}
    /\ Len(regions) >= 1

C8_WitnessPass ==
    /\ last.op = "create_regions"
    /\ last.err = "ValueError: undefined parent"
    /\ Cardinality(last.defs) >= 2

\* The entities of one kind of a region, by the suffix of an operator token.
EntitiesOf(region, suffix) ==
    CASE suffix = "V" -> region.vertices
      [] suffix = "E" -> region.edges
      [] suffix = "F" -> region.faces
      [] suffix = "S" -> region.facets
      [] suffix = "C" -> region.cells

\* C9: for a token with combinator S, A or I and suffix V, E, F, S or C,
\* region_op returns item1 combined with item2, in that order, over the
\* entities the suffix selects: item1 minus item2 for S, the union for A,
\* the intersection for I; any other suffix is an invalid-operator error.
C9_RegionOpCombinesInOrder ==
    (optest.err # "" /\ optest.token.c3 \in {"S", "A", "I"})
    => IF optest.token.last \in {"V", "E", "F", "S", "C"}
       THEN /\ optest.err = "none"
            /\ LET a == EntitiesOf(optest.item1, optest.token.last)
                   b == EntitiesOf(optest.item2, optest.token.last)
                   c == EntitiesOf(optest.rec, optest.token.last)
               IN  /\ optest.token.c3 = "S" => c = {x \in a : x \notin b}
                   /\ optest.token.c3 = "A" => c = {x \in a \cup b : TRUE}
                   /\ optest.token.c3 = "I" => c = {x \in a : x \in b}
       ELSE optest.err = "ValueError: unknown region operator token"

C9_Witness ==
    /\ optest.err = "none"
    /\ optest.token = OpTok("S", "S")
    /\ optest.item1.facets = {0}
    /\ optest.item2.facets = {1}
    /\ optest.item1.faces = {1}
    /\ optest.rec.facets = {0}

\* The positions of names whose region has n_nod vertices.
WholeAt(names) ==
    {j \in DOMAIN names : IsWhole(RegionOf(D, names[j]))}

\* C10 as stated: whenever a region with n_nod vertices is among the names
\* saved, that region is processed first and gets node group id 0.
C10_EveryWholeRegionGoesFirst ==
    (last.op = "save_regions_as_groups" /\ last.err = "none")
    => \A j \in WholeAt(last.names) :
          last.groups[1] = [name |-> last.names[j], n_ig |-> 0]

\* C10 as amended: when save_regions_as_groups completes, the first name of
\* the list whose region has n_nod vertices is processed first and gets
\* node group id 0; the other entries of the list, a later region with
\* n_nod vertices among them, keep their order and get the ids 1, 2, ...;
\* with no such region the list is processed as it is, from id 0 on.
C10_FirstWholeRegionGoesFirst ==
    (last.op = "save_regions_as_groups" /\ last.err = "none")
    => LET w == WholeAt(last.names)
           first == CHOOSE j \in w : \A l \in w : j <= l
           order == IF w = {} THEN last.names
                    ELSE <<last.names[first]>>
                         \o [l \in 1 .. Len(last.names) - 1 |->
                                IF l < first THEN last.names[l] ELSE last.names[l + 1]]
       IN  last.groups = [l \in 1 .. Len(order) |-> [name |-> order[l], n_ig |-> l - 1]]

C10_Witness ==
    /\ last.op = "save_regions_as_groups"
    /\ last.err = "none"
    /\ Len(last.names) = 3
    /\ WholeAt(last.names) = {3}
    /\ last.names[1] # last.names[2]
    /\ last.groups[1].name = last.names[3]
    /\ last.groups[2].name = last.names[1]

\* The (ig, region name) pairs that have a surface group.
SurfaceKeys(sg) == {k \in (DOMAIN sg) \X Names : k[2] \in DOMAIN sg[k[1]]}

\* C11: a surface group is created for a (group id, region name) pair only
\* if none exists yet.  Every pair has one surface group of its own, made
\* for that pair; create_surface_group keeps every surface group that is
\* there, adds one each for the pairs of its region that had none and no
\* other, and leaves self.surface_groups as it is when all pairs of its
\* region had one; clear_surface_groups leaves the map empty.
C11_SurfaceGroupCreatedOnce ==
    [][/\ \A k \in SurfaceKeys(surface_groups') :
            /\ surface_groups'[k[1]][k[2]].ig = k[1]
            /\ surface_groups'[k[1]][k[2]].region = k[2]
            /\ \A l \in SurfaceKeys(surface_groups') :
                  surface_groups'[l[1]][l[2]].id = surface_groups'[k[1]][k[2]].id => l = k
       /\ last'.op = "create_surface_group"
            => /\ \A k \in SurfaceKeys(surface_groups) :
                    /\ k \in SurfaceKeys(surface_groups')
                    /\ surface_groups'[k[1]][k[2]] = surface_groups[k[1]][k[2]]
               /\ SurfaceKeys(surface_groups')
                    = SurfaceKeys(surface_groups)
                      \cup {<<last'.region.igs[j], last'.region.name>> :
                                j \in DOMAIN last'.region.igs}
               /\ fe_surfaces' - fe_surfaces
                    = Cardinality(SurfaceKeys(surface_groups') \ SurfaceKeys(surface_groups))
               /\ ({<<last'.region.igs[j], last'.region.name>> :
                        j \in DOMAIN last'.region.igs} \subseteq SurfaceKeys(surface_groups))
                    => surface_groups' = surface_groups
       /\ last'.op = "clear_surface_groups" => surface_groups' = EmptyDict]_vars

C11_Witness ==
    /\ last.op = "create_surface_group"
    /\ last.region = SurfRegion("A", <<1, 0>>)
    /\ fe_surfaces = 3
    /\ SurfaceKeys(surface_groups) = {<<0, "A">>, <<1, "A">>, <<1, "B">>}
    /\ surface_groups[0]["A"].id = 3
    /\ surface_groups[1]["A"].id = 1
    /\ surface_groups[1]["B"].id = 2

====
